---- MODULE Spec2Model ----
(***************************************************************************)
(* The tab-group workspace of the shop generator: the layout (tab groups   *)
(* and their widths), its loading from and saving to localStorage, and the *)
(* drag/drop state machine of TabContainer.                                *)
(*                                                                         *)
(* Two ShopGenerator components are in the sources.  Both are modelled and *)
(* `build` says which one is mounted:                                      *)
(*   "effect"  the component that keeps a tabState and loads it in an      *)
(*             effect (createTabsFromConfig),                              *)
(*   "memo"    the component that computes the tab structure once with     *)
(*             createInitialTabState / createTabElements.                  *)
(* The hook useTabManagement is not among the sources; its operations are  *)
(* modelled from the design document.                                      *)
(*                                                                         *)
(* Indices are 0-based as in the code; NoIndex stands for null.            *)
(* Widths are in units of 1/60 of 100%, so that 100/n is exact for n <= 6. *)
(***************************************************************************)
EXTENDS Integers, Sequences, FiniteSets, TLC

\* ------------------------------------------------------------------ bounds
MaxDrags == 1          \* drag gestures in one run
MaxOvers == 2          \* drag-over events in one run
TabWidth == 20         \* pixel width of a rendered tab

\* --------------------------------------------------------------- constants
NoIndex == -1          \* null of an index-valued state
Full == 60             \* 100%
edgeThreshold == 40
NaN == -2              \* parseInt of a transfer field that is missing or not a number

Min(a, b) == IF a < b THEN a ELSE b

\* ------------------------------------------------------------------- tabs
TAB_TYPE_IDENTIFIERS ==
    {"Tab_Parameters", "Tab_InventoryTable", "Tab_ChooseShop",
     "Tab_ShopDetails", "Tab_AiAssistant"}

\* A value that is not a string (typeof v !== 'string').
NotAString == "<not a string>"

Tab(t, k) == [type |-> t, key |-> k]

\* undefined, as an entry of a tab list
UndefinedTab == Tab("<undefined>", "<undefined>")

DEFAULT_TAB_STATE ==
    [groups |-> << << Tab("Tab_Parameters", "Tab_Parameters-0"),
                      Tab("Tab_InventoryTable", "Tab_InventoryTable-0"),
                      Tab("Tab_ChooseShop", "Tab_ChooseShop-0"),
                      Tab("Tab_ShopDetails", "Tab_ShopDetails-0"),
                      Tab("Tab_AiAssistant", "Tab_AiAssistant-0") >> >>,
     widths |-> << Full >>]

\* ------------------------------------------------------- localStorage values
\* What the storage key holds.  kind: "none" (no item), "text" (an item that
\* JSON.parse rejects), "json" (a parsed object).  A json value says whether
\* its groups / widths members are arrays; each group says whether it is an
\* array and lists its tabs; a tab's type or key that is not a string is
\* NotAString.
NoItem == [kind |-> "none", groupsIsArray |-> FALSE, widthsIsArray |-> FALSE,
           groups |-> <<>>, widths |-> <<>>]

Unparseable == [kind |-> "text", groupsIsArray |-> FALSE, widthsIsArray |-> FALSE,
                groups |-> <<>>, widths |-> <<>>]

Group(tabs) == [isArray |-> TRUE, tabs |-> tabs]

Envelope(groups, widths) ==
    [kind |-> "json", groupsIsArray |-> TRUE, widthsIsArray |-> TRUE,
     groups |-> [i \in 1..Len(groups) |-> Group(groups[i])], widths |-> widths]

ValidTab(tab) ==
    /\ tab.type # NotAString
    /\ tab.key # NotAString
    /\ tab.type \in TAB_TYPE_IDENTIFIERS

\* isValidSavedState(state) !== null
isValidSavedState(state) ==
    /\ state.kind = "json"
    /\ state.groupsIsArray
    /\ state.widthsIsArray
    /\ \A i \in 1..Len(state.groups) :
          /\ state.groups[i].isArray
          /\ \A j \in 1..Len(state.groups[i].tabs) : ValidTab(state.groups[i].tabs[j])

\* localStorage.clear()
localStorageClear(st) == NoItem

\* createInitialTabState: the tab structure {groups, widths} the "memo" build
\* starts from, given what the storage holds when it is called.
createInitialTabState(st) ==
    LET savedState == localStorageClear(st)
    IN  IF isValidSavedState(savedState)
        THEN [groups |-> [i \in 1..Len(savedState.groups) |-> savedState.groups[i].tabs],
              widths |-> savedState.widths]
        ELSE DEFAULT_TAB_STATE

IsKnownType(tab) == tab.type \in TAB_TYPE_IDENTIFIERS
NonEmpty(group) == Len(group) > 0

\* createTabElements(tabStructure): unknown types are dropped, then empty groups.
createTabElements(tabStructure) ==
    SelectSeq([i \in 1..Len(tabStructure.groups) |->
                  SelectSeq(tabStructure.groups[i], IsKnownType)],
              NonEmpty)

\* createTabsFromConfig: the tabs kept of one group of the config
ProcessedGroup(group) ==
    IF group.isArray THEN SelectSeq(group.tabs, IsKnownType) ELSE <<>>

\* `${100 / n}%` for all groups but the last, '100%' for the last
RegeneratedWidths(n) == [i \in 1..n |-> IF i = n THEN Full ELSE Full \div n]

\* createTabsFromConfig that trusts the stored widths whatever their number
createTabsFromConfig_keepWidths(config) ==
    LET processedGroups ==
            SelectSeq([i \in 1..Len(config.groups) |-> ProcessedGroup(config.groups[i])],
                      NonEmpty)
    IN  IF Len(processedGroups) = 0 THEN DEFAULT_TAB_STATE
        ELSE [groups |-> processedGroups, widths |-> config.widths]

\* createTabsFromConfig that does not filter out the groups left empty
createTabsFromConfig_keepEmpty(config) ==
    LET processedGroups ==
            [i \in 1..Len(config.groups) |-> ProcessedGroup(config.groups[i])]
    IN  IF Len(processedGroups) = 0 THEN DEFAULT_TAB_STATE
        ELSE [groups |-> processedGroups,
              widths |-> IF Len(config.widths) # Len(processedGroups)
                         THEN RegeneratedWidths(Len(processedGroups))
                         ELSE config.widths]

\* createTabsFromConfig(config) of the "effect" build
createTabsFromConfig(config) ==
    LET processedGroups ==
            SelectSeq([i \in 1..Len(config.groups) |-> ProcessedGroup(config.groups[i])],
                      NonEmpty)
    IN  IF Len(processedGroups) = 0 THEN DEFAULT_TAB_STATE
        ELSE [groups |-> processedGroups,
              widths |-> IF Len(config.widths) # Len(processedGroups)
                         THEN RegeneratedWidths(Len(processedGroups))
                         ELSE config.widths]

\* The load effect without its check of the tab types
LoadTabState_noTypeCheck(st) ==
    IF st.kind # "json" THEN DEFAULT_TAB_STATE
    ELSE IF ~st.groupsIsArray \/ ~st.widthsIsArray THEN DEFAULT_TAB_STATE
    ELSE IF ~(\A i \in 1..Len(st.groups) :
                /\ st.groups[i].isArray
                /\ \A j \in 1..Len(st.groups[i].tabs) :
                      /\ st.groups[i].tabs[j].type # NotAString
                      /\ st.groups[i].tabs[j].key # NotAString)
         THEN DEFAULT_TAB_STATE
    ELSE createTabsFromConfig(st)

\* The load effect of the "effect" build: the tabState it sets.
LoadTabState(st) ==
    IF st.kind # "json" THEN DEFAULT_TAB_STATE
    ELSE IF ~st.groupsIsArray \/ ~st.widthsIsArray THEN DEFAULT_TAB_STATE
    ELSE IF ~(\A i \in 1..Len(st.groups) :
                /\ st.groups[i].isArray
                /\ \A j \in 1..Len(st.groups[i].tabs) :
                      /\ st.groups[i].tabs[j].type # NotAString
                      /\ st.groups[i].tabs[j].key # NotAString)
         THEN DEFAULT_TAB_STATE
    ELSE IF ~(\A i \in 1..Len(st.groups) :
                \A j \in 1..Len(st.groups[i].tabs) :
                    st.groups[i].tabs[j].type \in TAB_TYPE_IDENTIFIERS)
         THEN DEFAULT_TAB_STATE
    ELSE createTabsFromConfig(st)

\* ------------------------------------------------------------ save effect
\* Object.keys(TAB_TYPES), in insertion order
TabTypeOrder ==
    << "Tab_Parameters", "Tab_InventoryTable", "Tab_ChooseShop",
       "Tab_ShopDetails", "Tab_AiAssistant" >>

VARIABLES
    build,              \* which ShopGenerator is mounted: "effect" or "memo"
    unnamed,            \* the tab components that define no displayName
    phase,              \* "unmounted", "idle", "dragging", "dropped"
    storage,            \* localStorage[STORAGE_KEY]
    tabGroups,          \* useTabManagement: the groups, each a list of tabs
    flexBasis,          \* useTabManagement: the widths
    draggedTab,         \* useTabManagement: the drag session
    draggedTabIndex,
    sourceGroupIndex,
    dropIndicators,     \* useTabManagement: leftGroup, rightGroup, betweenGroups
    dropIndex,          \* per TabContainer: useState(null)
    activeTab,          \* per TabContainer: the key of the tab that is active
    originalPositions,  \* per TabContainer: cached tab centers
    timeoutRef,         \* per TabContainer: the pending debounced indicators
    dataTransfer,       \* the payload of the gesture in progress
    windowDraggedTab,   \* whether window.__draggedTab is set
    hover,              \* the container under the pointer during a gesture
    hoverZone,          \* where in that container the last drag-over was
    pointerX,           \* the x, from the header's left, that drag-over looked up
                        \* among the cached centers; NoIndex if it looked up none
    dropLog,            \* what the last handleDrop read and which callbacks it called
    drags,              \* gestures started
    overs,              \* drag-over events so far
    burst,              \* per TabContainer: the updates handed to its debounce
                        \* since its timer was last idle: whether any, whether
                        \* two in a row differed, and the last one
    applied,            \* per TabContainer: the values its debounce has called
                        \* the indicator callback with, for that burst
    cancelled,          \* per TabContainer: the burst's timer was cleared when
                        \* the container unmounted
    mountRead,          \* what the storage held when ShopGenerator last mounted,
                        \* as a list of one; empty once a gesture has started
    unmountedLayout,    \* the layout ShopGenerator had when it last unmounted,
                        \* as a list of one; empty once a gesture has started
    trace,              \* whether the run keeps the record of its drag-overs and
                        \* bursts (hoverZone, pointerX, burst, applied, cancelled)
                        \* and of the lists its drops read; fixed for a run
    setItem             \* localStorage.setItem: "ok", "throws" (the quota is
                        \* used up or the storage is denied), "thrown" (it
                        \* throws and an exception has left a save effect)

vars == << build, unnamed, phase, storage, tabGroups, flexBasis, draggedTab,
           draggedTabIndex, sourceGroupIndex, dropIndicators, dropIndex,
           originalPositions, timeoutRef, dataTransfer, windowDraggedTab,
           hover, hoverZone, pointerX, dropLog, drags, overs, burst, applied,
           cancelled, mountRead, unmountedLayout, trace, setItem, activeTab >>

\* displayName of a tab component
displayName(type) == IF type \in unnamed THEN "<undefined>" ELSE type

\* matchingType || tab.type.name, for a tab of the "effect" build (a React
\* element, tab.type is the component) and of the "memo" build (tab.type is
\* the descriptor {name, component, minWidth}, which has no displayName).
SavedType(b, tab) ==
    LET hits ==
            {i \in 1..Len(TabTypeOrder) :
                IF b = "effect"
                THEN \/ TabTypeOrder[i] = tab.type
                     \/ displayName(TabTypeOrder[i]) = displayName(tab.type)
                ELSE displayName(TabTypeOrder[i]) = "<undefined>"}
        \* Object.keys(TAB_TYPES).find(...)
        matchingType ==
            IF hits = {} THEN "<undefined>"
            ELSE TabTypeOrder[CHOOSE i \in hits : \A j \in hits : i <= j]
    IN  IF matchingType # "<undefined>" THEN matchingType ELSE tab.type

\* a save effect that writes only while the storage key holds no envelope
SaveState_onlyFirst(b, st, groups, widths) ==
    IF st.kind = "json" THEN st ELSE Envelope(groups, widths)

\* stateToSave: the envelope the save effect builds from the layout
StateToSave(b, groups, widths) ==
    Envelope([i \in 1..Len(groups) |->
                 [j \in 1..Len(groups[i]) |->
                     Tab(SavedType(b, groups[i][j]), groups[i][j].key)]], widths)

\* a save effect that writes whatever the layout is
SaveState_unchecked(b, st, groups, widths) == StateToSave(b, groups, widths)

\* The save effect: what the storage key holds after it ran.
SaveState(b, st, groups, widths) ==
    LET groupsData ==
            [i \in 1..Len(groups) |->
                [j \in 1..Len(groups[i]) |->
                    Tab(SavedType(b, groups[i][j]), groups[i][j].key)]]
        stateToSave == StateToSave(b, groups, widths)
    IN  IF b = "effect"
        THEN IF \A i \in 1..Len(groupsData) : \A j \in 1..Len(groupsData[i]) :
                    groupsData[i][j].type \in TAB_TYPE_IDENTIFIERS
             THEN stateToSave ELSE st
        ELSE IF isValidSavedState(stateToSave) THEN stateToSave ELSE st

\* ------------------------------------------------------ stored values tried
P0 == Tab("Tab_Parameters", "Tab_Parameters-0")
I0 == Tab("Tab_InventoryTable", "Tab_InventoryTable-0")
C0 == Tab("Tab_ChooseShop", "Tab_ChooseShop-0")

\* two groups, widths 50% / 50%
StoredTwoGroups == Envelope(<< <<P0, I0>>, <<C0>> >>, <<Full \div 2, Full \div 2>>)
\* an empty group, which loading filters out
StoredEmptyGroup == Envelope(<< <<P0>>, <<>>, <<I0>> >>, <<20, 20, 20>>)
\* fewer widths than groups
StoredShortWidths == Envelope(<< <<P0>>, <<I0>> >>, <<Full>>)
\* an unknown tab type
StoredUnknownType == Envelope(<< <<P0, Tab("Tab_Unknown", "Tab_Unknown-0")>> >>, <<Full>>)
\* a key that is not a string
StoredBadKey == Envelope(<< <<P0, Tab("Tab_ChooseShop", NotAString)>> >>, <<Full>>)
\* the same key in two groups
StoredSameKey ==
    Envelope(<< <<P0>>, <<Tab("Tab_InventoryTable", "Tab_Parameters-0")>> >>,
             <<Full \div 2, Full \div 2>>)
\* two groups, widths "120%" / "100%": as many widths as groups
StoredWide == Envelope(<< <<P0>>, <<I0>> >>, <<Full + Full \div 5, Full>>)

\* a type that is not a string
StoredBadType == Envelope(<< <<P0, Tab(NotAString, "Tab_ChooseShop-0")>> >>, <<Full>>)
\* groups is not an array
StoredNoGroups ==
    [kind |-> "json", groupsIsArray |-> FALSE, widthsIsArray |-> TRUE,
     groups |-> <<>>, widths |-> <<Full>>]
\* widths is not an array
StoredNoWidths ==
    [kind |-> "json", groupsIsArray |-> TRUE, widthsIsArray |-> FALSE,
     groups |-> << Group(<<P0>>) >>, widths |-> <<>>]
\* a group that is not an array, after one that is
StoredGroupNotArray ==
    [kind |-> "json", groupsIsArray |-> TRUE, widthsIsArray |-> TRUE,
     groups |-> << Group(<<P0>>), [isArray |-> FALSE, tabs |-> <<>>] >>,
     widths |-> <<Full \div 2, Full \div 2>>]

\* three groups, a third of the width each
StoredThreeGroups == Envelope(<< <<P0>>, <<I0>>, <<C0>> >>, <<20, 20, 20>>)

StoredValues ==
    { NoItem, Unparseable, StoredTwoGroups, StoredEmptyGroup, StoredShortWidths,
      StoredUnknownType, StoredBadKey, StoredSameKey, StoredWide,
      StoredBadType, StoredNoGroups, StoredNoWidths, StoredGroupNotArray }

UnnamedChoices == { {}, {"Tab_Parameters", "Tab_ShopDetails"} }

\* The runs explored: every stored value under the "effect" build; the "memo"
\* build, which clears the storage before it reads it, under three of them;
\* components without a displayName under one.
InitChoices ==
    { c \in [build : {"effect", "memo"}, unnamed : UnnamedChoices, storage : StoredValues] :
        /\ c.build = "memo" => c.storage \in {NoItem, Unparseable, StoredTwoGroups}
        /\ c.unnamed # {} => c.build = "effect" /\ c.storage = StoredShortWidths }

\* ------------------------------------------------------------- containers
MaxGroups == Len(DEFAULT_TAB_STATE.groups[1])
Containers == 0..(MaxGroups - 1)

NoTab == Tab("<null>", "<null>")
\* activeTab of a container that is not rendered, or that has no tab
NoActive == "<undefined>"
NoIndicators == [leftGroup |-> NoIndex, rightGroup |-> NoIndex, betweenGroups |-> NoIndex]
\* timeoutRef of a container with no timer pending
NoTimer == [pending |-> FALSE, args |-> NoIndicators]
\* no update handed to a debounce yet
NoBurst == [any |-> FALSE, changed |-> FALSE, last |-> NoIndicators]
\* the transfer of no gesture; origin says where a gesture started: on a tab
\* of this workspace ("tab") or anywhere else ("foreign")
NoTransfer == [index |-> NoIndex, groupIndex |-> NoIndex, tabInfo |-> NoTab, origin |-> ""]
\* JSON.parse of a 'tabInfo' field that is missing, empty or unparseable throws
SyntaxError == Tab("<SyntaxError>", "<SyntaxError>")
NoLog == [branch |-> "", target |-> NoIndex, zone |-> "", indicators |-> NoIndicators,
          dropIndex |-> NoIndex, calls |-> <<>>, sourceIndex |-> NoIndex,
          tabs |-> <<>>, groups |-> <<>>, widths |-> <<>>, newTabs |-> <<>>,
          steps |-> <<>>, targetIndex |-> NoIndex]

\* The containers of groups that no longer exist are unmounted (useDebounce's
\* cleanup clears their timer); a new group gets a freshly mounted container.
Remount(f, n, fresh) == [g \in Containers |-> IF g < n THEN f[g] ELSE fresh]

\* The state before ShopGenerator first mounts, for one of the given runs
InitFrom(choices, traced) ==
    /\ \E c \in choices :
          /\ build = c.build
          /\ unnamed = c.unnamed
          /\ storage = c.storage
    /\ trace = traced
    /\ setItem = "ok"
    /\ phase = "unmounted"
    /\ tabGroups = <<>>
    /\ flexBasis = <<>>
    /\ draggedTab = NoTab
    /\ draggedTabIndex = NoIndex
    /\ sourceGroupIndex = NoIndex
    /\ dropIndicators = NoIndicators
    /\ dropIndex = [g \in Containers |-> NoIndex]
    /\ activeTab = [g \in Containers |-> NoActive]
    /\ originalPositions = [g \in Containers |-> <<>>]
    /\ timeoutRef = [g \in Containers |-> NoTimer]
    /\ dataTransfer = NoTransfer
    /\ windowDraggedTab = FALSE
    /\ hover = NoIndex
    /\ hoverZone = ""
    /\ pointerX = NoIndex
    /\ dropLog = NoLog
    /\ drags = 0
    /\ overs = 0
    /\ burst = [g \in Containers |-> NoBurst]
    /\ applied = [g \in Containers |-> <<>>]
    /\ cancelled = [g \in Containers |-> FALSE]
    /\ mountRead = <<>>
    /\ unmountedLayout = <<>>

Init == InitFrom(InitChoices, FALSE)

\* The runs that keep the record of their drag-overs: the "effect" build on an
\* empty storage and on a stored layout of two groups
TraceChoices ==
    { c \in InitChoices :
        c.build = "effect" /\ c.unnamed = {} /\ c.storage \in {NoItem, StoredTwoGroups} }

InitTrace == InitFrom(TraceChoices, TRUE)

\* The effect of a container that keeps its active tab valid, run with the
\* tabs the container is given and the key of its active tab. tabs.includes
\* compares elements: fresh says that the tabs are the elements of a new
\* render of ShopGenerator, none of which is the element that was active.
activeTabEffect(tabs, active, fresh) ==
    IF ~fresh /\ \E j \in 1..Len(tabs) : tabs[j].key = active THEN active
    ELSE IF tabs = <<>> THEN NoActive ELSE tabs[1].key

\* ShopGenerator renders groups: every tab it hands to a container is made in
\* that render (React.cloneElement, React.createElement); a container that is
\* new starts with useState(tabs[0]), the others run their effect
ActiveAfterRender(groups) ==
    [g \in Containers |->
        IF g < Len(groups) THEN activeTabEffect(groups[g + 1], activeTab[g], TRUE)
        ELSE NoActive]

\* ShopGenerator mounts: the layout is loaded and the save effect runs.
\* the save effect calls localStorage.setItem for this layout
SetsItem(b, groups, widths) == SaveState(b, NoItem, groups, widths) # NoItem

\* localStorage.setItem throws inside a save effect, which has no try: the
\* exception leaves the effect and React unmounts ShopGenerator with its
\* hook and its containers; st is what the storage holds
Thrown(st) ==
    /\ setItem' = "thrown"
    /\ storage' = st
    /\ phase' = "unmounted"
    /\ tabGroups' = <<>>
    /\ flexBasis' = <<>>
    /\ draggedTab' = NoTab
    /\ draggedTabIndex' = NoIndex
    /\ sourceGroupIndex' = NoIndex
    /\ dropIndicators' = NoIndicators
    /\ dropIndex' = [g \in Containers |-> NoIndex]
    /\ originalPositions' = [g \in Containers |-> <<>>]
    /\ timeoutRef' = [g \in Containers |-> NoTimer]
    /\ dataTransfer' = NoTransfer
    /\ hover' = NoIndex
    /\ hoverZone' = ""
    /\ pointerX' = NoIndex
    /\ dropLog' = NoLog
    /\ burst' = [g \in Containers |-> NoBurst]
    /\ applied' = [g \in Containers |-> <<>>]
    /\ cancelled' = [g \in Containers |-> FALSE]
    /\ mountRead' = <<>>
    /\ unmountedLayout' = <<>>
    /\ activeTab' = [g \in Containers |-> NoActive]
    /\ UNCHANGED << trace, build, unnamed, windowDraggedTab, drags, overs >>

Mount ==
    /\ phase = "unmounted"
    /\ LET loaded ==
              IF build = "effect" THEN LoadTabState(storage)
              ELSE LET tabStructure == createInitialTabState(storage)
                   IN  [groups |-> createTabElements(tabStructure),
                        widths |-> tabStructure.widths]
           \* the first render saves the default layout ("effect") or the
           \* storage has been cleared ("memo") before the loaded one is saved
           before ==
              IF build = "effect"
              THEN SaveState(build, storage, DEFAULT_TAB_STATE.groups, DEFAULT_TAB_STATE.widths)
              ELSE localStorageClear(storage)
           \* the storage as the load leaves it
           read == IF build = "effect" THEN storage ELSE localStorageClear(storage)
       IN  IF /\ setItem # "ok"
              /\ \/ build = "effect" /\ SetsItem(build, DEFAULT_TAB_STATE.groups,
                                                 DEFAULT_TAB_STATE.widths)
                 \/ SetsItem(build, loaded.groups, loaded.widths)
           THEN Thrown(read)
           ELSE /\ tabGroups' = loaded.groups
                /\ flexBasis' = loaded.widths
                /\ storage' = SaveState(build, before, loaded.groups, loaded.widths)
                /\ phase' = "idle"
                /\ mountRead' = << storage >>
                /\ activeTab' = ActiveAfterRender(loaded.groups)
                /\ UNCHANGED << build, unnamed, draggedTab, draggedTabIndex,
                                sourceGroupIndex, dropIndicators, dropIndex,
                                originalPositions, timeoutRef, dataTransfer,
                                windowDraggedTab, hover, hoverZone, pointerX, dropLog,
                                drags, overs, burst, applied, cancelled,
                                unmountedLayout, trace, setItem >>

\* --------------------------------------------------------- list operations
\* array.splice(start, 1) for start >= 0: the rest and the removed element
\* (undefined when start is past the end)
SpliceOut(s, start) ==
    IF start < Len(s)
    THEN [rest |-> SubSeq(s, 1, start) \o SubSeq(s, start + 2, Len(s)),
          removed |-> s[start + 1]]
    ELSE [rest |-> s, removed |-> UndefinedTab]

\* array.splice(start, 0, e) for start >= 0
SpliceIn(s, start, e) ==
    LET k == Min(start, Len(s))
    IN  SubSeq(s, 1, k) \o <<e>> \o SubSeq(s, k + 1, Len(s))

Count(s, e) == Cardinality({i \in 1..Len(s) : s[i] = e})

IsPermutation(a, b) ==
    /\ Len(a) = Len(b)
    /\ \A i \in 1..Len(a) : Count(a, a[i]) = Count(b, a[i])

\* index (0-based) of the first tab of the list with the key, or NoIndex
IndexOfKey(s, key) ==
    LET hits == {i \in 1..Len(s) : s[i].key = key}
    IN  IF hits = {} THEN NoIndex
        ELSE (CHOOSE i \in hits : \A j \in hits : i <= j) - 1

\* ------------------------------------------------- useTabManagement (hook)
Layout(groups, widths) == [groups |-> groups, widths |-> widths]

\* an equal share for every group
EvenWidths(n) == [i \in 1..n |-> Full \div n]

\* the width of the deleted group k (1-based) goes to its left neighbour, or
\* to its right neighbour when it is the first group
MergeWidths(widths, k) ==
    LET into == IF k > 1 THEN k - 1 ELSE 2
        merged == [widths EXCEPT ![into] = widths[into] + widths[k]]
    IN  SubSeq(merged, 1, k - 1) \o SubSeq(merged, k + 1, Len(merged))

\* handleTabMove(newTabs, groupIndex): the group's list is replaced by a
\* reordering of it
reorderWithinGroup(layout, newTabs, groupIndex) ==
    IF /\ groupIndex \in 0..(Len(layout.groups) - 1)
       /\ IsPermutation(newTabs, layout.groups[groupIndex + 1])
    THEN Layout([layout.groups EXCEPT ![groupIndex + 1] = newTabs], layout.widths)
    ELSE layout

\* handleTabMove([tab, targetIndex], sourceGroupIndex, targetGroupIndex)
moveAcrossGroups(layout, tab, targetIndex, src, tgt) ==
    IF \/ src \notin 0..(Len(layout.groups) - 1)
       \/ tgt \notin 0..(Len(layout.groups) - 1)
       \/ src = tgt
       \/ targetIndex < 0
    THEN layout
    ELSE LET at == IndexOfKey(layout.groups[src + 1], tab.key)
         IN  IF at = NoIndex THEN layout
             ELSE LET source == SpliceOut(layout.groups[src + 1], at)
                      target == SpliceIn(layout.groups[tgt + 1], targetIndex, source.removed)
                      placed == [layout.groups EXCEPT ![src + 1] = source.rest,
                                                      ![tgt + 1] = target]
                  IN  IF Len(source.rest) > 0 THEN Layout(placed, layout.widths)
                      ELSE Layout(SubSeq(placed, 1, src) \o SubSeq(placed, src + 2, Len(placed)),
                                  MergeWidths(layout.widths, src + 1))

\* handleTabSplit(tabInfo, sourceGroupIndex, targetPosition): targetPosition
\* is true (right edge), false (left edge) or the index of the group whose
\* between-indicator was showing.
Right == [side |-> "right", at |-> NoIndex]
Left == [side |-> "left", at |-> NoIndex]
Between(groupIndex) == [side |-> "between", at |-> groupIndex]

splitGroup(layout, tabInfo, src, targetPosition) ==
    IF src \notin 0..(Len(layout.groups) - 1) THEN layout
    ELSE LET at == IndexOfKey(layout.groups[src + 1], tabInfo.key)
         IN  IF at = NoIndex THEN layout
             ELSE LET source == SpliceOut(layout.groups[src + 1], at)
                      gone == Len(source.rest) = 0
                      kept == IF gone
                              THEN SubSeq(layout.groups, 1, src)
                                       \o SubSeq(layout.groups, src + 2, Len(layout.groups))
                              ELSE [layout.groups EXCEPT ![src + 1] = source.rest]
                      pos == IF targetPosition.side = "right" THEN Len(kept)
                             ELSE IF targetPosition.side = "left" THEN 0
                             ELSE IF gone /\ src < targetPosition.at
                                  THEN targetPosition.at - 1
                                  ELSE Min(targetPosition.at, Len(kept))
                      groups == SubSeq(kept, 1, pos) \o << <<source.removed>> >>
                                    \o SubSeq(kept, pos + 1, Len(kept))
                  IN  Layout(groups, EvenWidths(Len(groups)))

\* ------------------------------------------------------------ TabContainer
\* Geometry.  A container's header starts at the container's left edge and
\* its tabs are TabWidth wide, so the cached centers, taken relative to the
\* header's left, are TabWidth/2, 3*TabWidth/2, ...  The pointer's x is taken
\* relative to the container's left edge.
Centers(n) == [k \in 1..n |-> ((2 * k - 1) * TabWidth) \div 2]

\* the pointer positions tried: <<x, container width>>
Pointers == {<<5, 100>>, <<15, 100>>, <<30, 60>>, <<50, 100>>, <<50, 60>>,
             <<85, 100>>, <<95, 100>>}
\* where the pointer's y lies: over the header, over the content below it, or
\* outside the container's top and bottom
Zones == {"header", "content", "outside"}

\* a handleDragOver that does not look at the vertical bounds
WithinContainer_always(zone) == TRUE

\* handleDragOver: mouseY >= containerRect.top && mouseY <= containerRect.bottom
WithinContainer(zone) == zone # "outside"

\* newIndicators whose leftGroup does not ask for the first group
NewIndicators_leftAnywhere(groupIndex, isOverHeader, isFirstGroup, isLastGroup, distanceFromLeft, distanceFromRight) ==
    [leftGroup |->
        IF ~isOverHeader /\ distanceFromLeft < edgeThreshold
        THEN groupIndex ELSE NoIndex,
     rightGroup |->
        IF ~isOverHeader /\ isLastGroup /\ distanceFromRight < edgeThreshold
        THEN groupIndex ELSE NoIndex,
     betweenGroups |->
        IF ~isOverHeader /\ (\/ ~isFirstGroup /\ distanceFromLeft < edgeThreshold
                             \/ ~isLastGroup /\ distanceFromRight < edgeThreshold)
        THEN groupIndex ELSE NoIndex]

\* handleDragOver: newIndicators
NewIndicators(groupIndex, isOverHeader, isFirstGroup, isLastGroup, distanceFromLeft, distanceFromRight) ==
    [leftGroup |->
        IF ~isOverHeader /\ isFirstGroup /\ distanceFromLeft < edgeThreshold
        THEN groupIndex ELSE NoIndex,
     rightGroup |->
        IF ~isOverHeader /\ isLastGroup /\ distanceFromRight < edgeThreshold
        THEN groupIndex ELSE NoIndex,
     betweenGroups |->
        IF ~isOverHeader /\ (\/ ~isFirstGroup /\ distanceFromLeft < edgeThreshold
                             \/ ~isLastGroup /\ distanceFromRight < edgeThreshold)
        THEN groupIndex ELSE NoIndex]

\* handleDragOver: the index found by walking the cached centers, capped
CenterIndex(positions, relativeX, tabsLength) ==
    LET hits == {i \in 1..(Len(positions) - 1) :
                    relativeX >= positions[i] /\ relativeX < positions[i + 1]}
        found == IF Len(positions) = 0 THEN tabsLength
                 ELSE IF relativeX < positions[1] THEN 0
                 ELSE IF hits = {} THEN tabsLength
                 ELSE CHOOSE i \in hits : \A j \in hits : i <= j
    IN  Min(found, tabsLength)

Armed(indicators) ==
    \/ indicators.leftGroup # NoIndex
    \/ indicators.rightGroup # NoIndex
    \/ indicators.betweenGroups # NoIndex

\* a newDropIndex without the reset to 0 for a new group
NewDropIndex_noReset(positions, relativeX, tabsLength, isOverHeader, newIndicators) ==
    CenterIndex(positions, relativeX, tabsLength)

\* handleDragOver: newDropIndex
NewDropIndex(positions, relativeX, tabsLength, isOverHeader, newIndicators) ==
    IF ~isOverHeader /\ Armed(newIndicators) THEN 0
    ELSE CenterIndex(positions, relativeX, tabsLength)

\* the style of a tab that is neither hidden nor moved
NoStyle == [visibility |-> "", translateX |-> 0]

\* a getTabStyle that leaves the tab at the drop index in place when the
\* dragged tab moves to the right
getTabStyle_upToDropIndex(index, tabs, draggedTabIdx, dropIdx, dragged, positions) ==
    IF draggedTabIdx = NoIndex \/ dropIdx = NoIndex \/ dragged = NoTab THEN NoStyle
    ELSE IF Len(positions) = 0 THEN NoStyle
    ELSE IF tabs[index + 1].key = dragged.key
    THEN [visibility |-> "hidden", translateX |-> 0]
    ELSE IF ~\E k \in 1..Len(tabs) : tabs[k].key = dragged.key THEN NoStyle
    ELSE LET tabWidth == IF draggedTabIdx < Len(tabs) THEN TabWidth ELSE 0
         IN  IF draggedTabIdx < dropIdx /\ index > draggedTabIdx /\ index < dropIdx
             THEN [visibility |-> "", translateX |-> 0 - tabWidth]
             ELSE IF draggedTabIdx > dropIdx /\ index >= dropIdx /\ index < draggedTabIdx
             THEN [visibility |-> "", translateX |-> tabWidth]
             ELSE NoStyle

\* getTabStyle(index) of a container showing tabs, with the session's
\* draggedTabIndex and draggedTab, the container's dropIndex and its cached
\* positions; tabWidth is the width of the tab at draggedTabIndex, 0 without one
getTabStyle(index, tabs, draggedTabIdx, dropIdx, dragged, positions) ==
    IF draggedTabIdx = NoIndex \/ dropIdx = NoIndex \/ dragged = NoTab THEN NoStyle
    ELSE IF Len(positions) = 0 THEN NoStyle
    ELSE IF tabs[index + 1].key = dragged.key
    THEN [visibility |-> "hidden", translateX |-> 0]
    ELSE IF ~\E k \in 1..Len(tabs) : tabs[k].key = dragged.key THEN NoStyle
    ELSE LET tabWidth == IF draggedTabIdx < Len(tabs) THEN TabWidth ELSE 0
         IN  IF draggedTabIdx < dropIdx /\ index > draggedTabIdx /\ index <= dropIdx
             THEN [visibility |-> "", translateX |-> 0 - tabWidth]
             ELSE IF draggedTabIdx > dropIdx /\ index >= dropIdx /\ index < draggedTabIdx
             THEN [visibility |-> "", translateX |-> tabWidth]
             ELSE NoStyle

\* useTabManagement's handleDropIndicatorChange
handleDropIndicatorChange(indicators) == dropIndicators' = indicators

\* the shared reference to the dragged tab, set when a tab starts to be dragged
setWindowDraggedTab == windowDraggedTab' = TRUE

\* a handleDragStart that takes the dragged tab out of its group's list
DragStart_removesTab(g, index) ==
    /\ phase = "idle"
    /\ drags < MaxDrags
    /\ g \in 0..(Len(tabGroups) - 1)
    /\ index \in 0..(Len(tabGroups[g + 1]) - 1)
    /\ LET tab == tabGroups[g + 1][index + 1]
       IN  /\ originalPositions' =
                 [originalPositions EXCEPT ![g] = Centers(Len(tabGroups[g + 1]))]
           /\ draggedTab' = tab
           /\ draggedTabIndex' = index
           /\ sourceGroupIndex' = g
           /\ dataTransfer' = [index |-> index, groupIndex |-> g, tabInfo |-> tab,
                               origin |-> "tab"]
    /\ tabGroups' = [tabGroups EXCEPT ![g + 1] = SpliceOut(tabGroups[g + 1], index).rest]
    /\ activeTab' = ActiveAfterRender(tabGroups')
    /\ setWindowDraggedTab
    /\ phase' = "dragging"
    /\ hover' = NoIndex
    /\ hoverZone' = ""
    /\ pointerX' = NoIndex
    /\ dropLog' = NoLog
    /\ drags' = drags + 1
    /\ burst' = [c \in Containers |-> IF timeoutRef[c].pending THEN burst[c] ELSE NoBurst]
    /\ applied' = [c \in Containers |-> IF timeoutRef[c].pending THEN applied[c] ELSE <<>>]
    /\ cancelled' = [c \in Containers |-> FALSE]
    /\ mountRead' = <<>>
    /\ unmountedLayout' = <<>>
    /\ UNCHANGED << setItem, trace, build, unnamed, storage, flexBasis, dropIndicators,
                    dropIndex, timeoutRef, overs >>

\* handleDragStart of the container of group g, on its tab at index
DragStart(g, index) ==
    /\ phase = "idle"
    /\ drags < MaxDrags
    /\ g \in 0..(Len(tabGroups) - 1)
    /\ index \in 0..(Len(tabGroups[g + 1]) - 1)
    /\ LET tab == tabGroups[g + 1][index + 1]
       IN  /\ originalPositions' =
                 [originalPositions EXCEPT ![g] = Centers(Len(tabGroups[g + 1]))]
           \* onDragStart(tab, index): the hook opens the session
           /\ draggedTab' = tab
           /\ draggedTabIndex' = index
           /\ sourceGroupIndex' = g
           /\ dataTransfer' = [index |-> index, groupIndex |-> g, tabInfo |-> tab,
                               origin |-> "tab"]
    \* ShopGenerator renders with the session open
    /\ activeTab' = ActiveAfterRender(tabGroups)
    /\ setWindowDraggedTab
    /\ phase' = "dragging"
    /\ hover' = NoIndex
    /\ hoverZone' = ""
    /\ pointerX' = NoIndex
    /\ dropLog' = NoLog
    /\ drags' = drags + 1
    \* the record of a burst is kept only while its timer is pending
    /\ burst' = [c \in Containers |-> IF timeoutRef[c].pending THEN burst[c] ELSE NoBurst]
    /\ applied' = [c \in Containers |-> IF timeoutRef[c].pending THEN applied[c] ELSE <<>>]
    /\ cancelled' = [c \in Containers |-> FALSE]
    /\ mountRead' = <<>>
    /\ unmountedLayout' = <<>>
    /\ UNCHANGED << setItem, trace, build, unnamed, storage, tabGroups, flexBasis, dropIndicators,
                    dropIndex, timeoutRef, overs >>

\* useDebounce whose call leaves a timer that is already pending in place
debouncedCallback_keepPending(g, args) ==
    IF timeoutRef[g].pending THEN timeoutRef[g]
    ELSE [pending |-> TRUE, args |-> args]

\* useDebounce's debouncedCallback(...args) of the container of group g: the
\* timer pending, if any, is cleared and a new one is set; the result is the
\* container's timeoutRef
debouncedCallback(g, args) == [pending |-> TRUE, args |-> args]

\* handleDragOver of the container of group g
DragOver(g, mouseX, width, zone) ==
    /\ phase = "dragging"
    /\ overs < MaxOvers
    /\ g \in 0..(Len(tabGroups) - 1)
    /\ hover \in {g, NoIndex}
    /\ mouseX <= width
    /\ LET isOverHeader == zone = "header"
           tabs == tabGroups[g + 1]
           newIndicators ==
               NewIndicators(g, isOverHeader, g = 0, g = Len(tabGroups) - 1,
                             mouseX, width - mouseX)
           newDropIndex ==
               NewDropIndex(originalPositions[g], mouseX, Len(tabs),
                            isOverHeader, newIndicators)
       IN  IF WithinContainer(zone)
           THEN /\ timeoutRef' = [timeoutRef EXCEPT
                                     ![g] = debouncedCallback(g, newIndicators)]
                /\ dropIndex' = [dropIndex EXCEPT ![g] = newDropIndex]
                /\ burst' = [burst EXCEPT
                                ![g] = IF ~trace THEN NoBurst
                                       ELSE IF timeoutRef[g].pending
                                       THEN [any |-> TRUE,
                                             changed |-> \/ burst[g].changed
                                                         \/ burst[g].last # newIndicators,
                                             last |-> newIndicators]
                                       ELSE [any |-> TRUE, changed |-> FALSE,
                                             last |-> newIndicators]]
                /\ applied' = [applied EXCEPT
                                  ![g] = IF timeoutRef[g].pending THEN applied[g] ELSE <<>>]
                /\ cancelled' = [cancelled EXCEPT ![g] = FALSE]
           ELSE UNCHANGED << timeoutRef, dropIndex, burst, applied, cancelled >>
    /\ hover' = g
    /\ hoverZone' = IF trace THEN zone ELSE ""
    /\ pointerX' = IF trace /\ zone # "outside"
                       /\ (zone = "header"
                           \/ ~Armed(NewIndicators(g, FALSE, g = 0, g = Len(tabGroups) - 1,
                                                   mouseX, width - mouseX)))
                    THEN mouseX ELSE NoIndex
    /\ overs' = overs + 1
    /\ UNCHANGED << setItem, trace, mountRead, unmountedLayout, build, unnamed, phase, storage, tabGroups, flexBasis, draggedTab,
                    draggedTabIndex, sourceGroupIndex, dropIndicators,
                    originalPositions, dataTransfer, windowDraggedTab, dropLog, drags,
                    activeTab >>

\* the debounce timer of the container of group g fires
TimerFire(g) ==
    /\ phase # "unmounted"
    /\ timeoutRef[g].pending
    /\ handleDropIndicatorChange(timeoutRef[g].args)
    /\ activeTab' = ActiveAfterRender(tabGroups)
    /\ timeoutRef' = [timeoutRef EXCEPT ![g] = NoTimer]
    /\ applied' = IF trace
                  THEN [applied EXCEPT ![g] = Append(applied[g], timeoutRef[g].args)]
                  ELSE applied
    /\ UNCHANGED << setItem, trace, mountRead, unmountedLayout, build, unnamed, phase, storage, tabGroups, flexBasis, draggedTab,
                    draggedTabIndex, sourceGroupIndex, dropIndex, originalPositions,
                    dataTransfer, windowDraggedTab, hover, hoverZone, pointerX, dropLog,
                    drags, overs,
                    burst, cancelled >>

\* handleDragLeave of the container under the pointer; the pointer has left
\* the container (isOutsideContainer) or only moved between its children
DragLeave(isOutsideContainer) ==
    /\ phase = "dragging"
    /\ hover # NoIndex
    /\ IF isOutsideContainer
       THEN handleDropIndicatorChange(NoIndicators) /\ hover' = NoIndex
            /\ hoverZone' = "" /\ pointerX' = NoIndex
            /\ activeTab' = ActiveAfterRender(tabGroups)
       ELSE UNCHANGED << dropIndicators, hover, hoverZone, pointerX, activeTab >>
    /\ UNCHANGED << setItem, trace, mountRead, unmountedLayout, build, unnamed, phase, storage, tabGroups, flexBasis, draggedTab,
                    draggedTabIndex, sourceGroupIndex, dropIndex, originalPositions,
                    timeoutRef, dataTransfer, windowDraggedTab, dropLog, drags, overs,
                    burst, applied, cancelled >>

\* handleDrop that tests for a reorder before it looks at the indicators
DropBranch_reorderFirst(g) ==
    IF dataTransfer.tabInfo = SyntaxError THEN "abort"
    ELSE IF /\ dataTransfer.groupIndex = g
       /\ dataTransfer.index # dropIndex[g]
       /\ dropIndex[g] # NoIndex THEN "reorder"
    ELSE IF dropIndicators.betweenGroups = g THEN "between"
    ELSE IF dropIndicators.leftGroup = g \/ dropIndicators.rightGroup = g THEN "edge"
    ELSE IF dataTransfer.groupIndex # g THEN "move"
    ELSE "none"

\* a handleDrop whose reorder branch does not compare the two indexes
DropBranch_reorderSamePlace(g) ==
    IF dataTransfer.tabInfo = SyntaxError THEN "abort"
    ELSE IF dropIndicators.betweenGroups = g THEN "between"
    ELSE IF dropIndicators.leftGroup = g \/ dropIndicators.rightGroup = g THEN "edge"
    ELSE IF dataTransfer.groupIndex # g THEN "move"
    ELSE IF dropIndex[g] # NoIndex THEN "reorder"
    ELSE "none"

\* handleDrop: which branch a drop on group g takes; "abort" when parsing the
\* transfer throws, before anything else is done
DropBranch(g) ==
    IF dataTransfer.tabInfo = SyntaxError THEN "abort"
    ELSE IF dropIndicators.betweenGroups = g THEN "between"
    ELSE IF dropIndicators.leftGroup = g \/ dropIndicators.rightGroup = g THEN "edge"
    ELSE IF dataTransfer.groupIndex # g THEN "move"
    ELSE IF dataTransfer.index # dropIndex[g] /\ dropIndex[g] # NoIndex THEN "reorder"
    ELSE "none"

\* a reorder that inserts the moved tab before it removes it from its old place
ReorderedTabs_insertThenRemove(tabs, sourceIndex, dropIdx) ==
    SpliceOut(SpliceIn(tabs, dropIdx, tabs[sourceIndex + 1]), sourceIndex).rest

\* a reorder that lowers the drop index by one when the tab moves to the right
ReorderedTabs_shiftedRight(tabs, sourceIndex, dropIdx) ==
    LET out == SpliceOut(tabs, sourceIndex)
    IN  SpliceIn(out.rest, IF sourceIndex < dropIdx THEN dropIdx - 1 ELSE dropIdx,
                 out.removed)

\* handleDrop: the reordered list handed to onTabMove (splice takes a start
\* of NaN as 0)
ReorderedTabs(tabs, sourceIndex, dropIdx) ==
    LET out == SpliceOut(tabs, IF sourceIndex = NaN THEN 0 ELSE sourceIndex)
    IN  SpliceIn(out.rest, dropIdx, out.removed)

\* a target index one past the drop index
TargetIndex_afterDropIndex(g) ==
    IF dropIndex[g] # NoIndex THEN dropIndex[g] + 1 ELSE Len(tabGroups[g + 1])

\* handleDrop: targetIndex of a move, dropIndex !== null ? dropIndex : tabs.length
TargetIndex(g) ==
    IF dropIndex[g] # NoIndex THEN dropIndex[g] ELSE Len(tabGroups[g + 1])

\* handleDrop that names the group dropped on as the source of a split
DropResult_splitFromTarget(g, branch) ==
    LET layout == Layout(tabGroups, flexBasis)
        tabs == tabGroups[g + 1]
    IN  CASE branch = "between" ->
                splitGroup(layout, dataTransfer.tabInfo, g, Between(g))
          [] branch = "edge" ->
                splitGroup(layout, dataTransfer.tabInfo, g,
                           IF dropIndicators.rightGroup = g THEN Right ELSE Left)
          [] branch = "move" ->
                moveAcrossGroups(layout, draggedTab, TargetIndex(g), sourceGroupIndex, g)
          [] branch = "reorder" ->
                reorderWithinGroup(layout,
                                   ReorderedTabs(tabs, dataTransfer.index, dropIndex[g]), g)
          [] OTHER -> layout

\* handleDrop: the layout after the callback of the branch has run
DropResult(g, branch) ==
    LET layout == Layout(tabGroups, flexBasis)
        tabs == tabGroups[g + 1]
    IN  CASE branch = "between" ->
                splitGroup(layout, dataTransfer.tabInfo, dataTransfer.groupIndex, Between(g))
          [] branch = "edge" ->
                splitGroup(layout, dataTransfer.tabInfo, dataTransfer.groupIndex,
                           IF dropIndicators.rightGroup = g THEN Right ELSE Left)
          [] branch = "move" ->
                \* onTabMove([draggedTab, targetIndex], ...): ShopGenerator's
                \* wrapper passes the hook's sourceGroupIndex and this group
                moveAcrossGroups(layout, draggedTab, TargetIndex(g), sourceGroupIndex, g)
          [] branch = "reorder" ->
                reorderWithinGroup(layout,
                                   ReorderedTabs(tabs, dataTransfer.index, dropIndex[g]), g)
          [] OTHER -> layout

\* the callbacks handleDrop invokes on a branch
DropCalls(branch) ==
    CASE branch \in {"between", "edge"} -> << [fn |-> "onTabSplit", form |-> branch] >>
      [] branch \in {"move", "reorder"} -> << [fn |-> "onTabMove", form |-> branch] >>
      [] OTHER -> <<>>

\* a handleDrop that clears the indicators after the callback of its branch
DropSteps_clearLast(branch) ==
    IF branch = "abort" THEN <<>>
    ELSE [i \in 1..Len(DropCalls(branch)) |-> DropCalls(branch)[i].fn]
            \o << "onDropIndicatorChange", "setDropIndex" >>

\* handleDrop: the calls it makes after reading the transfer and the
\* indicators, in their order
DropSteps(branch) ==
    IF branch = "abort" THEN <<>>
    ELSE << "onDropIndicatorChange" >>
            \o [i \in 1..Len(DropCalls(branch)) |-> DropCalls(branch)[i].fn]
            \o << "setDropIndex" >>

\* handleDrop of the container under the pointer
Drop ==
    /\ phase = "dragging"
    /\ hover # NoIndex
    /\ LET g == hover
           branch == DropBranch(g)
           result == DropResult(g, branch)
           n == Len(result.groups)
       IN  IF /\ setItem # "ok"
              /\ result # Layout(tabGroups, flexBasis)
              /\ SetsItem(build, result.groups, result.widths)
           THEN \* the save effect that follows the change throws
                Thrown(storage)
           ELSE /\ dropLog' =
                      [branch |-> branch, target |-> g, zone |-> hoverZone,
                       indicators |-> dropIndicators,
                       dropIndex |-> dropIndex[g], calls |-> DropCalls(branch),
                       sourceIndex |-> IF trace THEN dataTransfer.index ELSE NoIndex,
                       tabs |-> IF trace THEN tabGroups[g + 1] ELSE <<>>,
                       groups |-> IF trace THEN tabGroups ELSE <<>>,
                       widths |-> IF trace THEN flexBasis ELSE <<>>,
                       newTabs |-> IF trace /\ branch = "reorder"
                                   THEN ReorderedTabs(tabGroups[g + 1], dataTransfer.index,
                                                      dropIndex[g])
                                   ELSE <<>>,
                       steps |-> DropSteps(branch),
                       targetIndex |-> IF branch = "move" THEN TargetIndex(g)
                                       ELSE NoIndex]
                /\ IF branch = "abort" THEN UNCHANGED dropIndicators
                   ELSE handleDropIndicatorChange(NoIndicators)
                /\ tabGroups' = result.groups
                /\ flexBasis' = result.widths
                \* setActiveTab(movedTab) of a reorder names an element of the
                \* render the drop happened in; the effect runs on the tabs
                \* of the render that follows
                /\ activeTab' = IF branch = "abort" THEN activeTab
                                ELSE ActiveAfterRender(result.groups)
                /\ storage' = IF branch \in {"none", "abort"} THEN storage
                              ELSE SaveState(build, storage, result.groups, result.widths)
                /\ dropIndex' = IF branch = "abort" THEN dropIndex
                                ELSE Remount([dropIndex EXCEPT ![g] = NoIndex], n, NoIndex)
                /\ originalPositions' = Remount(originalPositions, n, <<>>)
                /\ timeoutRef' = Remount(timeoutRef, n, NoTimer)
                /\ cancelled' = [c \in Containers |->
                                     cancelled[c]
                                         \/ (trace /\ c >= n /\ timeoutRef[c].pending)]
                /\ phase' = "dropped"
                /\ hover' = NoIndex
                /\ hoverZone' = ""
                /\ pointerX' = NoIndex
                /\ UNCHANGED << setItem, trace, mountRead, unmountedLayout, build, unnamed,
                                draggedTab, draggedTabIndex, sourceGroupIndex,
                                dataTransfer, windowDraggedTab, drags, overs, burst,
                                applied >>

\* useTabManagement's handleDragEnd: the session and the indicators are cleared
onDragEnd ==
    /\ draggedTab' = NoTab
    /\ draggedTabIndex' = NoIndex
    /\ sourceGroupIndex' = NoIndex
    /\ dropIndicators' = NoIndicators

\* handleDragEnd that cleans up only when no drop handler ran
DragEnd_onlyWhenCancelled ==
    /\ phase \in {"dragging", "dropped"}
    /\ dataTransfer.origin = "tab"
    /\ dropIndex' = [dropIndex EXCEPT ![dataTransfer.groupIndex] = NoIndex]
    /\ IF phase = "dragging"
       THEN onDragEnd /\ windowDraggedTab' = FALSE
       ELSE UNCHANGED << draggedTab, draggedTabIndex, sourceGroupIndex, dropIndicators,
                         windowDraggedTab >>
    /\ dataTransfer' = NoTransfer
    /\ phase' = "idle"
    /\ hover' = NoIndex
    /\ hoverZone' = ""
    /\ pointerX' = NoIndex
    /\ activeTab' = ActiveAfterRender(tabGroups)
    /\ UNCHANGED << setItem, trace, mountRead, unmountedLayout, build, unnamed, storage, tabGroups, flexBasis, originalPositions,
                    timeoutRef, dropLog, drags, overs, burst, applied, cancelled >>

\* handleDragEnd of the container the gesture started in: after a drop, or
\* when the gesture is cancelled or released outside every container
DragEnd ==
    /\ phase \in {"dragging", "dropped"}
    /\ dataTransfer.origin = "tab"
    /\ dropIndex' = [dropIndex EXCEPT ![dataTransfer.groupIndex] = NoIndex]
    /\ onDragEnd
    /\ windowDraggedTab' = FALSE
    /\ dataTransfer' = NoTransfer
    /\ phase' = "idle"
    /\ hover' = NoIndex
    /\ hoverZone' = ""
    /\ pointerX' = NoIndex
    /\ activeTab' = ActiveAfterRender(tabGroups)
    /\ UNCHANGED << setItem, trace, mountRead, unmountedLayout, build, unnamed, storage, tabGroups, flexBasis, originalPositions,
                    timeoutRef, dropLog, drags, overs, burst, applied, cancelled >>

\* ShopGenerator unmounts between gestures (the page is left or reloaded):
\* its state and that of its containers is gone, their timers are cleared by
\* useDebounce's cleanup, the storage stays.
Unmount ==
    /\ phase = "idle"
    /\ phase' = "unmounted"
    /\ unmountedLayout' = << Layout(tabGroups, flexBasis) >>
    /\ mountRead' = <<>>
    /\ tabGroups' = <<>>
    /\ flexBasis' = <<>>
    /\ dropIndex' = [g \in Containers |-> NoIndex]
    /\ originalPositions' = [g \in Containers |-> <<>>]
    /\ timeoutRef' = [g \in Containers |-> NoTimer]
    /\ dropLog' = NoLog
    /\ burst' = [g \in Containers |-> NoBurst]
    /\ applied' = [g \in Containers |-> <<>>]
    /\ cancelled' = [g \in Containers |-> FALSE]
    /\ activeTab' = [g \in Containers |-> NoActive]
    /\ UNCHANGED << setItem, trace, build, unnamed, storage, draggedTab, draggedTabIndex,
                    sourceGroupIndex, dropIndicators, dataTransfer, windowDraggedTab,
                    hover, hoverZone, pointerX, drags, overs >>

Next ==
    \/ Mount
    \/ Unmount
    \/ \E g \in Containers, index \in 0..(MaxGroups - 1) : DragStart(g, index)
    \/ \E g \in Containers, p \in Pointers, zone \in Zones : DragOver(g, p[1], p[2], zone)
    \/ \E isOutsideContainer \in BOOLEAN : DragLeave(isOutsideContainer)
    \/ \E g \in Containers : TimerFire(g)
    \/ Drop
    \/ DragEnd

Spec == Init /\ [][Next]_vars

SpecTrace == InitTrace /\ [][Next]_vars

\* The runs for the drag-over handler: the "effect" build on a stored layout
\* of three groups (a first, a middle and a last group)
OverChoices == [build : {"effect"}, unnamed : {{}}, storage : {StoredThreeGroups}]

InitOver == InitFrom(OverChoices, FALSE)

SpecOver == InitOver /\ [][Next]_vars

\* The runs for the type tags that are saved: both builds on an empty storage,
\* with every component named and with two components without a displayName
NameChoices ==
    [build : {"effect", "memo"}, unnamed : UnnamedChoices, storage : {NoItem}]

InitNames == InitFrom(NameChoices, FALSE)

SpecNames == InitNames /\ [][Next]_vars

\* ---------------------------------------------- gestures that start elsewhere
\* A drop event carries whatever the gesture's source put into the transfer.
\* A gesture that did not start on a tab of this workspace (a tab of the same
\* page in another window, a file, a selection) runs no handleDragStart here:
\* no session is opened and no positions are cached; handleDragOver,
\* handleDragLeave and handleDrop of the containers run as for any gesture,
\* and no handleDragEnd runs here, the source element being elsewhere.
A0 == Tab("Tab_AiAssistant", "Tab_AiAssistant-0")

\* what handleDrop reads from the transfer of such a gesture
ForeignTransfers ==
    { \* 'tabInfo' missing, empty or not JSON
      [index |-> 0, groupIndex |-> 0, tabInfo |-> SyntaxError, origin |-> "foreign"],
      \* 'text/plain' missing
      [index |-> NaN, groupIndex |-> 0, tabInfo |-> P0, origin |-> "foreign"],
      \* 'groupIndex' missing
      [index |-> 0, groupIndex |-> NaN, tabInfo |-> P0, origin |-> "foreign"],
      \* well-formed, written against the layout of another window: the index
      \* is that of another tab here
      [index |-> 1, groupIndex |-> 0, tabInfo |-> P0, origin |-> "foreign"],
      \* ... the index is beyond the tabs of the group here
      [index |-> MaxGroups - 1, groupIndex |-> 0, tabInfo |-> A0, origin |-> "foreign"],
      \* ... the group index is beyond the groups here
      [index |-> 0, groupIndex |-> MaxGroups - 1, tabInfo |-> P0, origin |-> "foreign"] }

\* a gesture that started elsewhere enters the workspace
ForeignDragEnter(transfer) ==
    /\ phase = "idle"
    /\ drags < MaxDrags
    /\ dataTransfer' = transfer
    /\ phase' = "dragging"
    /\ hover' = NoIndex
    /\ hoverZone' = ""
    /\ pointerX' = NoIndex
    /\ dropLog' = NoLog
    /\ drags' = drags + 1
    /\ burst' = [c \in Containers |-> IF timeoutRef[c].pending THEN burst[c] ELSE NoBurst]
    /\ applied' = [c \in Containers |-> IF timeoutRef[c].pending THEN applied[c] ELSE <<>>]
    /\ cancelled' = [c \in Containers |-> FALSE]
    /\ mountRead' = <<>>
    /\ unmountedLayout' = <<>>
    /\ UNCHANGED << setItem, trace, build, unnamed, storage, tabGroups, flexBasis, draggedTab,
                    draggedTabIndex, sourceGroupIndex, dropIndicators, dropIndex,
                    originalPositions, timeoutRef, windowDraggedTab, overs, activeTab >>

\* such a gesture ends, dropped or not: no handler of the workspace runs
ForeignDragEnd ==
    /\ phase \in {"dragging", "dropped"}
    /\ dataTransfer.origin = "foreign"
    /\ dataTransfer' = NoTransfer
    /\ phase' = "idle"
    /\ hover' = NoIndex
    /\ hoverZone' = ""
    /\ pointerX' = NoIndex
    /\ UNCHANGED << setItem, trace, mountRead, unmountedLayout, build, unnamed, storage, tabGroups,
                    flexBasis, draggedTab, draggedTabIndex, sourceGroupIndex,
                    dropIndicators, dropIndex, originalPositions, timeoutRef,
                    windowDraggedTab, dropLog, drags, overs, burst, applied, cancelled,
                    activeTab >>

\* --------------------------------------------------- a storage that gives out
\* From some moment on localStorage.setItem throws (the quota of the origin is
\* used up by other pages, or the browser denies the storage)
StorageFills ==
    /\ phase \in {"unmounted", "idle"}
    /\ setItem = "ok"
    /\ setItem' = "throws"
    /\ UNCHANGED << build, unnamed, phase, storage, tabGroups, flexBasis, draggedTab,
                    draggedTabIndex, sourceGroupIndex, dropIndicators, dropIndex,
                    originalPositions, timeoutRef, dataTransfer, windowDraggedTab,
                    hover, hoverZone, pointerX, dropLog, drags, overs, burst, applied,
                    cancelled, mountRead, unmountedLayout, trace, activeTab >>

NextQuota ==
    \/ Next
    \/ StorageFills

\* The runs in which the storage may give out: both builds on an empty storage
QuotaChoices == { c \in InitChoices : c.unnamed = {} /\ c.storage = NoItem }

InitQuota == InitFrom(QuotaChoices, FALSE)

SpecQuota == InitQuota /\ [][NextQuota]_vars

NextForeign ==
    \/ Next
    \/ \E transfer \in ForeignTransfers : ForeignDragEnter(transfer)
    \/ ForeignDragEnd

\* The runs with gestures of either origin: the "effect" build on a stored
\* layout of two groups, with the record of the drag-overs
ForeignChoices ==
    { c \in InitChoices :
        c.build = "effect" /\ c.unnamed = {} /\ c.storage = StoredTwoGroups }

InitForeign == InitFrom(ForeignChoices, TRUE)

SpecForeign == InitForeign /\ [][NextForeign]_vars

\* ----------------------------------------------------------- tab selection
\* handleTabClick of the container of group g on its tab at index, between
\* gestures: the tab becomes active; onTabClick is absent or does nothing
TabClick(g, index) ==
    /\ phase = "idle"
    /\ g \in 0..(Len(tabGroups) - 1)
    /\ index \in 0..(Len(tabGroups[g + 1]) - 1)
    /\ activeTab' = [activeTab EXCEPT
                        ![g] = activeTabEffect(tabGroups[g + 1],
                                               tabGroups[g + 1][index + 1].key, FALSE)]
    /\ UNCHANGED << build, unnamed, phase, storage, tabGroups, flexBasis, draggedTab,
                    draggedTabIndex, sourceGroupIndex, dropIndicators, dropIndex,
                    originalPositions, timeoutRef, dataTransfer, windowDraggedTab,
                    hover, hoverZone, pointerX, dropLog, drags, overs, burst, applied,
                    cancelled, mountRead, unmountedLayout, trace, setItem >>

NextActive ==
    \/ Next
    \/ \E g \in Containers, index \in 0..(MaxGroups - 1) : TabClick(g, index)

\* The runs with tab selection: both builds on an empty storage and on a
\* stored layout of two groups
ActiveChoices ==
    { c \in InitChoices : c.unnamed = {} /\ c.storage \in {NoItem, StoredTwoGroups} }

InitActive == InitFrom(ActiveChoices, FALSE)

SpecActive == InitActive /\ [][NextActive]_vars

\* ================================================================== claims
Mounted == phase # "unmounted"

Max(a, b) == IF a < b THEN b ELSE a

RECURSIVE SumSeq(_)
SumSeq(s) == IF s = <<>> THEN 0 ELSE Head(s) + SumSeq(Tail(s))

RECURSIVE Flatten(_)
Flatten(ss) == IF ss = <<>> THEN <<>> ELSE Head(ss) \o Flatten(Tail(ss))

AllTabs == Flatten(tabGroups)

NoDuplicateKeys ==
    \A i, j \in 1..Len(AllTabs) : AllTabs[i].key = AllTabs[j].key => i = j

\* C1: in every layout state, after loading and after any drops, no panel
\* key occurs twice, within a group or in two groups.
C1_Membership == Mounted => NoDuplicateKeys

\* the widths the groups get when the last group takes what the others leave
NonLastSum(widths) == SumSeq(SubSeq(widths, 1, Len(widths) - 1))
LastShare(widths) == Max(0, Full - NonLastSum(widths))
ResolvedSum(widths) == NonLastSum(widths) + LastShare(widths)

\* C2: in every layout state the width fractions, the last group absorbing
\* the remainder, sum to exactly 100%.
C2_WidthSum == Mounted => ResolvedSum(flexBasis) = Full

\* C3: in every layout state there are as many widths as groups, also after
\* loading an envelope with an empty group or with too few or too many widths.
C3_GroupsMatchWidths == Mounted => Len(tabGroups) = Len(flexBasis)

\* the layout loaded from an envelope whose empty group was filtered out, with
\* its widths regenerated
C3_Witness ==
    /\ build = "effect"
    /\ phase = "idle"
    /\ drags = 0
    /\ tabGroups = << <<P0>>, <<I0>> >>
    /\ flexBasis = << Full \div 2, Full >>

\* C4: every group of the layout holds at least one panel.
C4_NoEmptyGroup == Mounted => \A i \in 1..Len(tabGroups) : Len(tabGroups[i]) >= 1

\* a cross-group drop has moved the last panel out of its group, which is gone
C4_Witness ==
    /\ phase = "dropped"
    /\ dropLog.branch = "move"
    /\ Len(tabGroups) = 1
    /\ Len(tabGroups[1]) = 2

\* C5: a drop made while the betweenGroups indicator is non-null never
\* reorders within the group, whichever group the indicator names.
C5_NoReorderWhenBetweenArmed ==
    phase = "dropped" /\ dropLog.indicators.betweenGroups # NoIndex
        => dropLog.branch # "reorder"

SplitBetween == << [fn |-> "onTabSplit", form |-> "between"] >>
SplitEdge == << [fn |-> "onTabSplit", form |-> "edge"] >>
MoveAcross == << [fn |-> "onTabMove", form |-> "move"] >>
MoveReorder == << [fn |-> "onTabMove", form |-> "reorder"] >>

\* C6: a drop takes the first branch that matches, in the order between
\* indicator for the target, edge indicator for the target, other source
\* group, drop index set and different from the source index, nothing; and
\* it calls at most one mutation callback, once.
C6_DropPrecedence ==
    phase = "dropped" =>
        LET between == dropLog.indicators.betweenGroups = dropLog.target
            edge == \/ dropLog.indicators.leftGroup = dropLog.target
                    \/ dropLog.indicators.rightGroup = dropLog.target
            other == dataTransfer.groupIndex # dropLog.target
            shifted == /\ dropLog.dropIndex # NoIndex
                       /\ dropLog.dropIndex # dataTransfer.index
        IN  /\ Len(dropLog.calls) <= 1
            /\ dropLog.calls =
                  (IF between THEN SplitBetween
                   ELSE IF edge THEN SplitEdge
                   ELSE IF other THEN MoveAcross
                   ELSE IF shifted THEN MoveReorder
                   ELSE <<>>)

\* a drop on the source group with its left indicator showing, at a drop
\* index that differs from the source index: the split wins over the reorder
C6_Witness ==
    /\ phase = "dropped"
    /\ dropLog.indicators.leftGroup = dropLog.target
    /\ dataTransfer.groupIndex = dropLog.target
    /\ dropLog.dropIndex # NoIndex
    /\ dropLog.dropIndex # dataTransfer.index
    /\ dropLog.calls = SplitEdge

\* C7: whenever no drag session is active the three indicator fields are null.
C7_IndicatorsClearWithoutSession ==
    Mounted /\ draggedTab = NoTab => dropIndicators = NoIndicators

\* C8: when the pointer leaves a container during a drag the indicators are
\* cleared and the update pending in that container's debounce is canceled.
C8_LeaveCancelsPending ==
    [][(phase = "dragging" /\ phase' = "dragging" /\ hover # NoIndex /\ hover' = NoIndex)
          => (dropIndicators' = NoIndicators /\ ~timeoutRef'[hover].pending)]_vars

\* C9: after drag end no debounce timer is pending in any container.
C9_NoTimerAfterDragEnd ==
    phase = "idle" => \A g \in Containers : ~timeoutRef[g].pending

\* C10: once the drag-end handler has run, after a drop or without one, the
\* session is closed and window.__draggedTab is gone.
C10_SessionClosed ==
    phase = "idle" =>
        /\ draggedTab = NoTab
        /\ draggedTabIndex = NoIndex
        /\ sourceGroupIndex = NoIndex
        /\ ~windowDraggedTab

\* drag end has run after a drop that changed the layout
C10_Witness ==
    /\ phase = "idle"
    /\ dropLog.branch \in {"between", "edge", "move", "reorder"}
    /\ draggedTab = NoTab
    /\ ~windowDraggedTab

\* ----------------------------------- claims on the recorded runs (SpecTrace)
\* C11 as stated: the updates one container hands to its debounce without
\* its timer firing in between make one burst; the indicator callback is
\* called for a burst exactly once, with the last value of the burst.
C11_AppliedExactlyOnce ==
    \A g \in Containers :
        /\ Len(applied[g]) <= 1
        /\ applied[g] # <<>> =>
              burst[g].any /\ applied[g][1] = burst[g].last
        /\ (burst[g].any /\ ~timeoutRef[g].pending) => applied[g] # <<>>

\* C11 amended: the callback is called for a burst at most once and only with
\* the last value of the burst; once the burst's timer is no longer pending
\* it has been called exactly once, unless the container unmounted first, and
\* then it is never called for that burst.
C11_DebounceCoalesces ==
    \A g \in Containers :
        /\ Len(applied[g]) <= 1
        /\ applied[g] # <<>> =>
              burst[g].any /\ applied[g][1] = burst[g].last
        /\ (burst[g].any /\ ~timeoutRef[g].pending /\ ~cancelled[g])
              => applied[g] # <<>>
        /\ cancelled[g] => applied[g] = <<>> /\ ~timeoutRef[g].pending

\* a burst in which an update replaced a different one has been applied: once,
\* as its last update
C11_Witness ==
    \E g \in Containers :
        /\ burst[g].changed
        /\ applied[g] = << burst[g].last >>

\* how many of the three indicator fields are non-null
ArmedCount(indicators) ==
    (IF indicators.leftGroup # NoIndex THEN 1 ELSE 0)
    + (IF indicators.rightGroup # NoIndex THEN 1 ELSE 0)
    + (IF indicators.betweenGroups # NoIndex THEN 1 ELSE 0)

\* C12: at most one of leftGroup, rightGroup, betweenGroups is non-null in
\* the indicator state, and every value a drag-over computes arms at most one.
C12_AtMostOneIndicator ==
    /\ ArmedCount(dropIndicators) <= 1
    /\ \A g \in Containers : ArmedCount(burst[g].last) <= 1

\* C13: a drop released while the pointer is over a group's header never
\* takes a split branch.
C13_HeaderDropNeverSplits ==
    phase = "dropped" /\ dropLog.zone = "header"
        => dropLog.branch \notin {"between", "edge"}

\* the first position (0-based) whose cached center is >= x, n when there is none
FirstCenterAtLeast(positions, x, n) ==
    LET hits == {k \in 1..Len(positions) : positions[k] >= x}
    IN  IF hits = {} THEN n ELSE (CHOOSE k \in hits : \A j \in hits : k <= j) - 1

\* C14: when the drag-over looks the pointer up among the cached centers
\* (over the header, or with no indicator armed), the drop index it computes
\* is the first position whose cached center is >= the pointer's x: 0 left of
\* the first center, the tab count right of all centers.
C14_DropIndexFirstCenter ==
    \A g \in Containers :
        (/\ phase = "dragging"
         /\ hover = g
         /\ pointerX # NoIndex)
        => dropIndex[g] =
              FirstCenterAtLeast(originalPositions[g], pointerX, Len(tabGroups[g + 1]))

\* the list without its element at index i (0-based)
Without(list, i) == SubSeq(list, 1, i) \o SubSeq(list, i + 2, Len(list))

\* the list newTabs is the list tabs with its element at index i moved to index k
MovedTo(tabs, newTabs, i, k) ==
    /\ Len(newTabs) = Len(tabs)
    /\ IsPermutation(newTabs, tabs)
    /\ k < Len(newTabs)
    /\ newTabs[k + 1] = tabs[i + 1]
    /\ Without(newTabs, k) = Without(tabs, i)

\* C15 as stated: a reorder drop with source index i and drop index j hands on
\* a permutation of the group's list, of the same length, in which the moved
\* panel is at index j and the other panels keep their order.
C15_ReorderMovesToDropIndex ==
    phase = "dropped" /\ dropLog.branch = "reorder"
        => MovedTo(dropLog.tabs, dropLog.newTabs, dropLog.sourceIndex, dropLog.dropIndex)

\* C15 amended: the moved panel is at index j, or at the last index when j is
\* the tab count.
C15_ReorderMovesToDropIndexOrEnd ==
    phase = "dropped" /\ dropLog.branch = "reorder"
        => MovedTo(dropLog.tabs, dropLog.newTabs, dropLog.sourceIndex,
                   Min(dropLog.dropIndex, Len(dropLog.tabs) - 1))

\* the first panel of a group has been dragged to index 2: [A,B,C,..] gives [B,C,A,..]
C15_Witness ==
    /\ phase = "dropped"
    /\ dropLog.branch = "reorder"
    /\ dropLog.sourceIndex = 0
    /\ dropLog.dropIndex = 2
    /\ Len(dropLog.tabs) >= 3
    /\ SubSeq(dropLog.newTabs, 1, 3) = << dropLog.tabs[2], dropLog.tabs[3], dropLog.tabs[1] >>

\* C16: reordering a panel from index i to index j and then from its new
\* index back to i restores the original order of the group.
C16_ReorderRoundTrip ==
    phase = "dropped" /\ dropLog.branch = "reorder"
        => ReorderedTabs(dropLog.newTabs,
                         Min(dropLog.dropIndex, Len(dropLog.tabs) - 1),
                         dropLog.sourceIndex) = dropLog.tabs

\* the last of five panels has been moved to index 1, which changed the order
C16_Witness ==
    /\ phase = "dropped"
    /\ dropLog.branch = "reorder"
    /\ dropLog.sourceIndex = 4
    /\ dropLog.dropIndex = 1
    /\ dropLog.newTabs # dropLog.tabs
    /\ ReorderedTabs(dropLog.newTabs, 1, 4) = dropLog.tabs

\* the groups `after` are the groups `before` with the panel at index `index`
\* of group src taken out, that group removed if it held nothing else, and
\* one new group holding only that panel put in
IsSplitOf(before, after, src, index) ==
    LET tab == before[src + 1][index + 1]
        rest == Without(before[src + 1], index)
        kept == IF rest = <<>> THEN Without(before, src)
                ELSE [before EXCEPT ![src + 1] = rest]
    IN  \E pos \in 1..Len(after) :
            /\ after[pos] = << tab >>
            /\ Without(after, pos - 1) = kept

\* C17: a drop that takes a split branch requests exactly one split, and the
\* split adds one new group holding only the dragged panel, the source group
\* having one panel fewer, or being removed if it held no other panel.
C17_SplitAddsOneGroup ==
    (phase = "dropped" /\ dropLog.branch \in {"between", "edge"})
        => /\ Len(dropLog.calls) = 1
           /\ dropLog.calls[1].fn = "onTabSplit"
           /\ IsSplitOf(dropLog.groups, tabGroups, dataTransfer.groupIndex,
                        dataTransfer.index)

\* the first of two panels of the only group has been split off to the right
C17_Witness ==
    /\ phase = "dropped"
    /\ dropLog.branch = "edge"
    /\ dropLog.indicators.rightGroup = dropLog.target
    /\ Len(tabGroups) = 2
    /\ tabGroups[2] = << draggedTab >>
    /\ Len(tabGroups[1]) >= 1

\* ------------------------------------------- claims on loading (Spec)
\* the tabs of every group of a stored value
StoredTabs(st) == Flatten([i \in 1..Len(st.groups) |-> st.groups[i].tabs])

\* a stored value that is not parseable JSON, lacks an array groups or an
\* array widths, has a group that is not an array, or a tab whose type or key
\* is not a string or whose type is not a known type tag
IsBrokenStored(st) ==
    \/ st.kind = "text"
    \/ /\ st.kind = "json"
       /\ \/ ~st.groupsIsArray
          \/ ~st.widthsIsArray
          \/ \E i \in 1..Len(st.groups) : ~st.groups[i].isArray
          \/ \E i \in 1..Len(StoredTabs(st)) :
                \/ StoredTabs(st)[i].type = NotAString
                \/ StoredTabs(st)[i].key = NotAString
                \/ StoredTabs(st)[i].type \notin TAB_TYPE_IDENTIFIERS

HasDefaultLayout ==
    /\ tabGroups = DEFAULT_TAB_STATE.groups
    /\ flexBasis = DEFAULT_TAB_STATE.widths

\* C18: a mount that finds such a stored value ends mounted, with the default
\* layout: one group of the five default panels, widths ["100%"].
C18_BrokenStoredGivesDefault ==
    (mountRead # <<>> /\ IsBrokenStored(mountRead[1]))
        => phase = "idle" /\ HasDefaultLayout

\* the "effect" build has mounted on a stored value whose second group is
\* not an array, and shows the five default panels
C18_Witness ==
    /\ build = "effect"
    /\ mountRead = << StoredGroupNotArray >>
    /\ phase = "idle"
    /\ HasDefaultLayout
    /\ Len(tabGroups[1]) = 5

\* C19: a mount that finds a well-formed stored layout (arrays, every type
\* and key a string) holding tabs of unknown type shows the stored groups
\* without those tabs, and without the groups left empty.
C19_UnknownTypeDropsOnlyThatTab ==
    (/\ mountRead # <<>>
     /\ mountRead[1].kind = "json"
     /\ mountRead[1].groupsIsArray /\ mountRead[1].widthsIsArray
     /\ \A i \in 1..Len(mountRead[1].groups) : mountRead[1].groups[i].isArray
     /\ \A i \in 1..Len(StoredTabs(mountRead[1])) :
           /\ StoredTabs(mountRead[1])[i].type # NotAString
           /\ StoredTabs(mountRead[1])[i].key # NotAString
     /\ \E i \in 1..Len(StoredTabs(mountRead[1])) :
           StoredTabs(mountRead[1])[i].type \notin TAB_TYPE_IDENTIFIERS
     /\ \E i \in 1..Len(StoredTabs(mountRead[1])) :
           StoredTabs(mountRead[1])[i].type \in TAB_TYPE_IDENTIFIERS)
        => tabGroups =
              SelectSeq([i \in 1..Len(mountRead[1].groups) |->
                            SelectSeq(mountRead[1].groups[i].tabs, IsKnownType)],
                        NonEmpty)

\* C20: a mount that follows an unmount shows the layout the workspace had
\* when it unmounted: the same groups of the same panels in the same order,
\* the same widths.
C20_RoundTrip ==
    (phase = "idle" /\ mountRead # <<>> /\ unmountedLayout # <<>>)
        => Layout(tabGroups, flexBasis) = unmountedLayout[1]

\* the indicators a drop read show the group it was dropped on
ShowedTarget ==
    \/ dropLog.indicators.betweenGroups = dropLog.target
    \/ dropLog.indicators.leftGroup = dropLog.target
    \/ dropLog.indicators.rightGroup = dropLog.target

\* C31: a drop on the group the gesture started in, with no indicator armed
\* for that group and a drop index that is null or the source index, invokes
\* neither onTabMove nor onTabSplit and leaves the groups and the widths.
C31_SamePlaceDropIsNoOp ==
    (/\ phase = "dropped"
     /\ dropLog.target = dataTransfer.groupIndex
     /\ ~ShowedTarget
     /\ dropLog.dropIndex \in {NoIndex, dataTransfer.index})
        => /\ dropLog.calls = <<>>
           /\ tabGroups = dropLog.groups
           /\ flexBasis = dropLog.widths

\* a tab has been dropped in the header of its group at its own index
C31_Witness ==
    /\ phase = "dropped"
    /\ dropLog.target = dataTransfer.groupIndex
    /\ ~ShowedTarget
    /\ dropLog.zone = "header"
    /\ dropLog.dropIndex = dataTransfer.index
    /\ Len(dropLog.tabs) > 1

C32_WitnessNull ==
    /\ phase = "dropped"
    /\ dropLog.branch = "move"
    /\ dropLog.dropIndex = NoIndex
    /\ dropLog.targetIndex = Len(dropLog.tabs)

\* the style getTabStyle gave the tab at index k of the group dropped on, just
\* before the drop
PreviewStyle(k) ==
    getTabStyle(k, dropLog.tabs, draggedTabIndex, dropLog.dropIndex, draggedTab,
                originalPositions[dropLog.target])

\* C33: in a reorder drop with source index i and drop index d, every other
\* tab that the preview shifted left by one tab width ends one index lower,
\* every tab shifted right ends one index higher, every tab not shifted
\* keeps its index, and only tabs between i and d were shifted.
C33_PreviewAgreesWithDrop ==
    (phase = "dropped" /\ dropLog.branch = "reorder")
        => \A k \in 0..(Len(dropLog.tabs) - 1) :
              k # dropLog.sourceIndex =>
                 LET shift == PreviewStyle(k).translateX
                     after == IndexOfKey(dropLog.newTabs, dropLog.tabs[k + 1].key)
                     i == dropLog.sourceIndex
                     d == dropLog.dropIndex
                 IN  /\ shift \in {0 - TabWidth, 0, TabWidth}
                     /\ shift = 0 - TabWidth => after = k - 1
                     /\ shift = TabWidth => after = k + 1
                     /\ shift = 0 => after = k
                     /\ shift # 0 => (i < k /\ k <= d) \/ (d <= k /\ k < i)

\* a reorder drop whose preview shifted some tab left, and one whose preview
\* shifted some tab right
C33_WitnessLeft ==
    /\ phase = "dropped"
    /\ dropLog.branch = "reorder"
    /\ PreviewStyle(dropLog.sourceIndex).visibility = "hidden"
    /\ \E k \in 0..(Len(dropLog.tabs) - 1) : PreviewStyle(k).translateX = 0 - TabWidth
    /\ \E k \in 0..(Len(dropLog.tabs) - 1) :
          k # dropLog.sourceIndex /\ PreviewStyle(k).translateX = 0

C33_WitnessRight ==
    /\ phase = "dropped"
    /\ dropLog.branch = "reorder"
    /\ \E k \in 0..(Len(dropLog.tabs) - 1) : PreviewStyle(k).translateX = TabWidth

\* C34: from drag start until the drop, no step changes the groups or the
\* widths, and the dragged panel is at the group and index the session
\* recorded.
C34_LayoutStableDuringDrag ==
    [][phase' = "dragging" =>
          /\ UNCHANGED << tabGroups, flexBasis >>
          /\ sourceGroupIndex' \in 0..(Len(tabGroups') - 1)
          /\ draggedTabIndex' \in 0..(Len(tabGroups'[sourceGroupIndex' + 1]) - 1)
          /\ tabGroups'[sourceGroupIndex' + 1][draggedTabIndex' + 1] = draggedTab']_vars

\* a gesture in which a drag-over has happened, the pointer has left the
\* container and a debounce timer has applied its indicators
C34_Witness ==
    /\ phase = "dragging"
    /\ overs > 0
    /\ hover = NoIndex
    /\ Armed(dropIndicators)
    /\ tabGroups[sourceGroupIndex + 1][draggedTabIndex + 1] = draggedTab

\* C35: a drop released while the pointer is in an edge zone of the group
\* (the last drag-over of the container armed leftGroup or rightGroup, whether
\* or not its debounce timer has fired) results in a split, never in a move
\* or a reorder.
C35_EdgeZoneDropSplits ==
    (/\ phase = "dropped"
     /\ timeoutRef[dropLog.target].pending
     /\ \/ timeoutRef[dropLog.target].args.leftGroup = dropLog.target
        \/ timeoutRef[dropLog.target].args.rightGroup = dropLog.target)
        => /\ Len(dropLog.calls) = 1
           /\ dropLog.calls[1].fn = "onTabSplit"

\* ------------------------------------------------------ claims on saving (Spec)
\* C23: once the save effect has run after a change of the groups or the
\* widths, the storage key holds the envelope of the layout in memory.
C23_StoredIsCurrent == Mounted => storage = Envelope(tabGroups, flexBasis)

\* a drop has split a group off and the changed layout has been saved
C23_Witness ==
    /\ phase = "dropped"
    /\ dropLog.branch \in {"between", "edge"}
    /\ Len(tabGroups) = 3
    /\ storage = Envelope(tabGroups, flexBasis)

\* C36: the stored envelope lists, group by group and in order, every panel
\* under its own type tag and key.
C36_SavedUnderOwnType ==
    (Mounted /\ storage.kind = "json")
        => /\ Len(storage.groups) = Len(tabGroups)
           /\ \A i \in 1..Len(tabGroups) :
                 /\ Len(storage.groups[i].tabs) = Len(tabGroups[i])
                 /\ \A j \in 1..Len(tabGroups[i]) :
                       /\ storage.groups[i].tabs[j].type = tabGroups[i][j].type
                       /\ storage.groups[i].tabs[j].key = tabGroups[i][j].key

\* a layout with a tab whose component is not one of TAB_TYPES
UnknownTypeLayout ==
    Layout(<< << P0, Tab("Tab_Unknown", "Tab_Unknown-0") >> >>, << Full >>)

\* C37: once ShopGenerator has mounted, the storage key holds an envelope that
\* isValidSavedState accepts; and the save effect, given a layout whose
\* envelope fails the validation, leaves the storage as it is.
C37_StoredIsValid ==
    Mounted
        => /\ isValidSavedState(storage)
           /\ LET L == UnknownTypeLayout
              IN  ~isValidSavedState(StateToSave(build, L.groups, L.widths))
                      => SaveState(build, storage, L.groups, L.widths) = storage

\* a mount has found an envelope that the validation rejects and has replaced it
C37_Witness ==
    /\ phase = "idle"
    /\ mountRead # <<>>
    /\ mountRead[1].kind = "json"
    /\ ~isValidSavedState(mountRead[1])
    /\ isValidSavedState(storage)

\* C38: when no drag is in progress (the last one was dropped or cancelled)
\* the drop index of every container is null.
C38_DropIndexClearedAfterDrag ==
    phase = "idle" => \A g \in Containers : dropIndex[g] = NoIndex

\* C39: a drop index that is not null lies between 0 and the number of tabs its
\* container holds now.
C39_DropIndexInRange ==
    \A g \in Containers :
        dropIndex[g] # NoIndex
            => /\ g < Len(tabGroups)
               /\ dropIndex[g] \in 0..Len(tabGroups[g + 1])

\* the active tab of every container is one of the tabs of its group
ActiveIsCurrent ==
    \A g \in Containers :
        g < Len(tabGroups)
            => \E j \in 1..Len(tabGroups[g + 1]) : tabGroups[g + 1][j].key = activeTab[g]

\* C40: after every step the active tab of a group is one of its tabs; when
\* the step leaves a group without the tab that was active, the first tab is
\* active; and a drop that reorders the active tab within its group leaves
\* that tab active.
C40_ActiveTabStaysValid ==
    [][/\ phase' # "unmounted" => ActiveIsCurrent'
       /\ \A g \in Containers :
             /\ (/\ g < Len(tabGroups) /\ g < Len(tabGroups')
                  /\ \A j \in 1..Len(tabGroups'[g + 1]) :
                        tabGroups'[g + 1][j].key # activeTab[g])
                    => activeTab'[g] = tabGroups'[g + 1][1].key
             /\ (/\ phase = "dragging" /\ phase' = "dropped" /\ hover = g
                  /\ DropBranch(g) = "reorder"
                  /\ activeTab[g] = tabGroups[g + 1][dataTransfer.index + 1].key)
                    => activeTab'[g] = activeTab[g]]_vars

\* C24: a localStorage.setItem that throws is caught inside the save effect:
\* no exception leaves the effect (and the layout in memory stays).
C24_FailingSaveIsCaught == setItem # "thrown"

\* C30: in a drop that invokes onTabMove or onTabSplit the indicators are set
\* to all-null before that callback is invoked, and whether it splits is
\* decided by the indicators as they were before they were cleared.
C30_ClearedBeforeCallback ==
    (phase = "dropped" /\ dropLog.calls # <<>>)
        => /\ dropLog.steps[1] = "onDropIndicatorChange"
           /\ dropLog.steps[2] = dropLog.calls[1].fn
           /\ dropLog.calls[1].fn = "onTabSplit"
                 <=> \/ dropLog.indicators.betweenGroups = dropLog.target
                     \/ dropLog.indicators.leftGroup = dropLog.target
                     \/ dropLog.indicators.rightGroup = dropLog.target

\* a drop has split a group: its indicators were armed when it read them and
\* are all null after it
C30_Witness ==
    /\ phase = "dropped"
    /\ dropLog.calls # <<>>
    /\ dropLog.calls[1].fn = "onTabSplit"
    /\ dropLog.indicators # NoIndicators
    /\ dropIndicators = NoIndicators

\* ------------------------------------------ claims on drag-over (SpecOver)
\* C25: a drag-over arms leftGroup only on the first group, off the header,
\* less than 40 px from the left edge, and rightGroup only on the last group,
\* off the header, less than 40 px from the right edge.
C25_EdgeIndicatorsOnlyAtEdges ==
    [][\A g \in Containers, p \in Pointers, zone \in Zones :
          (DragOver(g, p[1], p[2], zone) /\ zone # "outside") =>
              LET newIndicators == timeoutRef'[g].args
              IN  /\ newIndicators.leftGroup # NoIndex =>
                        /\ newIndicators.leftGroup = g
                        /\ g = 0
                        /\ zone # "header"
                        /\ p[1] < edgeThreshold
                  /\ newIndicators.rightGroup # NoIndex =>
                        /\ newIndicators.rightGroup = g
                        /\ g = Len(tabGroups) - 1
                        /\ zone # "header"
                        /\ p[2] - p[1] < edgeThreshold]_vars

\* a drag-over has armed leftGroup and another has armed rightGroup
C25_Witness ==
    /\ phase = "dragging"
    /\ \E g \in Containers : timeoutRef[g].pending /\ timeoutRef[g].args.leftGroup = g
    /\ \E g \in Containers : timeoutRef[g].pending /\ timeoutRef[g].args.rightGroup = g

\* C26: a drag-over arms betweenGroups only on a group that is neither the
\* first nor the last.
C26_BetweenOnlyOnMiddleGroups ==
    [][\A g \in Containers, p \in Pointers, zone \in Zones :
          (DragOver(g, p[1], p[2], zone) /\ zone # "outside"
             /\ timeoutRef'[g].args.betweenGroups # NoIndex)
              => (g # 0 /\ g # Len(tabGroups) - 1)]_vars

\* C27: a drag-over whose pointer is outside the vertical bounds of the
\* container schedules and applies no indicator update and leaves the drop
\* index, the layout and the session as they are.
C27_OutsideChangesNothing ==
    [][\A g \in Containers, p \in Pointers :
          DragOver(g, p[1], p[2], "outside") =>
              UNCHANGED << timeoutRef, dropIndicators, dropIndex, originalPositions,
                           tabGroups, flexBasis, storage, draggedTab, draggedTabIndex,
                           sourceGroupIndex, dataTransfer, phase >>]_vars

\* the one drag-over of the gesture so far was outside the bounds: the
\* container under the pointer has no timer and no drop index
C27_Witness ==
    /\ phase = "dragging"
    /\ overs = 1
    /\ hover # NoIndex
    /\ ~timeoutRef[hover].pending
    /\ dropIndicators = NoIndicators
    /\ dropIndex[hover] = NoIndex

\* C28: a drag-over that arms an indicator sets the drop index to 0.
C28_ArmedMeansIndexZero ==
    [][\A g \in Containers, p \in Pointers, zone \in Zones :
          (DragOver(g, p[1], p[2], zone) /\ zone # "outside"
             /\ Armed(timeoutRef'[g].args))
              => dropIndex'[g] = 0]_vars

\* a drag-over of the group the gesture started in, right of the cached
\* center of its tab, has armed an indicator
C28_Witness ==
    /\ phase = "dragging"
    /\ hover # NoIndex
    /\ timeoutRef[hover].pending
    /\ Armed(timeoutRef[hover].args)
    /\ timeoutRef[hover].args.rightGroup = hover
    /\ originalPositions[hover] # <<>>
    /\ dropIndex[hover] = 0

\* C29: every drag-over that computes a drop index reads the snapshot of tab
\* centers taken when this gesture started: the container it runs in is the
\* one the gesture started in, and its snapshot is not empty.
C29_ReadsSnapshotOfThisDrag ==
    [][\A g \in Containers, p \in Pointers, zone \in Zones :
          (DragOver(g, p[1], p[2], zone) /\ zone # "outside")
              => (g = sourceGroupIndex /\ originalPositions[g] # <<>>)]_vars

\* ------------------------------- claims on transfers of any origin (SpecForeign)
\* a transfer with 'text/plain', 'groupIndex' or 'tabInfo' missing or unparseable
Malformed(transfer) ==
    \/ transfer.tabInfo = SyntaxError
    \/ transfer.index = NaN
    \/ transfer.groupIndex = NaN

\* after a drop, the indicators and the drop index of the container dropped on
\* are cleared
DropCleared == dropIndicators = NoIndicators /\ dropIndex[dropLog.target] = NoIndex

\* C21: a drop whose transfer is malformed invokes neither onTabMove nor
\* onTabSplit, and the indicators and the drop index are cleared after it.
C21_MalformedDropIsNoOp ==
    (phase = "dropped" /\ Malformed(dataTransfer))
        => (dropLog.calls = <<>> /\ DropCleared)

\* a well-formed transfer whose group index or index is outside the layout, or
\* whose index is that of another tab than the one it names
Stale(transfer, groups) ==
    /\ ~Malformed(transfer)
    /\ \/ transfer.groupIndex \notin 0..(Len(groups) - 1)
       \/ transfer.index \notin 0..(Len(groups[transfer.groupIndex + 1]) - 1)
       \/ groups[transfer.groupIndex + 1][transfer.index + 1] # transfer.tabInfo

\* C22: a drop whose source index or source group index is stale or out of
\* range leaves the groups as they were, and the indicators and the drop
\* index are cleared after it.
C22_StaleDropLeavesLayout ==
    (phase = "dropped" /\ Stale(dataTransfer, dropLog.groups))
        => (tabGroups = dropLog.groups /\ DropCleared)

====
